---- MODULE Spec2Model ----
(***************************************************************************)
(* Model of plugins/modules/get_token.py: the Ansible module that obtains  *)
(* an access token from a Keycloak token endpoint with the OAuth2 password *)
(* grant.                                                                  *)
(*                                                                         *)
(* A Python str is a sequence of one-character strings, so that lower(),   *)
(* startswith(), str.format(), the % operator and urlencode() are computed *)
(* character by character.  A Python value is a record [t, v]: t is the    *)
(* name of its type and v its content.                                     *)
(*                                                                         *)
(* Two invocations run side by side (Inv).  They are independent in the    *)
(* program, there is no shared state; the model gives the second one the   *)
(* same inputs as the first except for the password, or for the token the  *)
(* provider issues, so that what a failure message depends on can be       *)
(* stated by comparing the two.                                            *)
(***************************************************************************)
EXTENDS Naturals, Sequences, FiniteSets, TLC

VARIABLES inv, wire

vars == <<inv, wire>>

(***************************************************************************)
(* Bounds of the model.                                                    *)
(***************************************************************************)
\* longest tail appended to a scheme prefix to make a base URL
MaxUrlTail == 1
\* longest realm name
MaxRealmLen == 1
\* longest password
MaxPasswordLen == 1

(***************************************************************************)
(* Text literals of the source, spelled out as character sequences.        *)
(***************************************************************************)
S_http == <<"h","t","t","p">>
S_https == <<"h","t","t","p","s">>
S_realms == <<"/","r","e","a","l","m","s","/">>
S_protocol == <<"/","p","r","o","t","o","c","o","l","/","o","p","e","n","i","d","-","c","o","n","n","e","c","t","/","t","o","k","e","n">>
S_None == <<"N","o","n","e">>
S_grant_type == <<"g","r","a","n","t","_","t","y","p","e">>
S_password == <<"p","a","s","s","w","o","r","d">>
S_client_id == <<"c","l","i","e","n","t","_","i","d">>
S_username == <<"u","s","e","r","n","a","m","e">>
S_admin_cli == <<"a","d","m","i","n","-","c","l","i">>
S_Ansible == <<"A","n","s","i","b","l","e">>
S_POST == <<"P","O","S","T">>
S_access_token == <<"a","c","c","e","s","s","_","t","o","k","e","n">>
S_error == <<"e","r","r","o","r">>
S_invalid_grant == <<"i","n","v","a","l","i","d","_","g","r","a","n","t">>
S_bad_scheme_1 == <<"a","u","t","h","_","u","r","l"," ","'">>
S_bad_scheme_2 == <<"'"," ","s","h","o","u","l","d"," ","e","i","t","h","e","r"," ","s","t","a","r","t"," ","w","i","t","h"," ","'","h","t","t","p","'"," ","o","r"," ","'","h","t","t","p","s","'",".">>
S_invalid_json == <<"A","P","I"," ","r","e","t","u","r","n","e","d"," ","i","n","v","a","l","i","d"," ","J","S","O","N"," ","w","h","e","n"," ","t","r","y","i","n","g"," ","t","o"," ","o","b","t","a","i","n"," ","a","c","c","e","s","s"," ","t","o","k","e","n"," ","f","r","o","m"," ">>
S_could_not == <<"C","o","u","l","d"," ","n","o","t"," ","o","b","t","a","i","n"," ","a","c","c","e","s","s"," ","t","o","k","e","n"," ","f","r","o","m"," ">>
S_colon == <<":"," ">>
S_expecting_value == <<"E","x","p","e","c","t","i","n","g"," ","v","a","l","u","e",":"," ","l","i","n","e"," ","1"," ","c","o","l","u","m","n"," ","1"," ","(","c","h","a","r"," ","0",")">>
S_timed_out == <<"t","i","m","e","d"," ","o","u","t">>
S_refused == <<"<","u","r","l","o","p","e","n"," ","e","r","r","o","r"," ","[","E","r","r","n","o"," ","1","1","1","]"," ","C","o","n","n","e","c","t","i","o","n"," ","r","e","f","u","s","e","d",">">>
S_http_401 == <<"H","T","T","P"," ","E","r","r","o","r"," ","4","0","1",":"," ","U","n","a","u","t","h","o","r","i","z","e","d">>
S_unknown_url == <<"u","n","k","n","o","w","n"," ","u","r","l"," ","t","y","p","e",":"," ">>
S_abc123 == <<"a","b","c","1","2","3">>
S_xyz789 == <<"x","y","z","7","8","9">>
S_not_json == <<"n","o","t","-","j","s","o","n">>
S_expires_in == <<"e","x","p","i","r","e","s","_","i","n">>
S_list_indices == <<"l","i","s","t"," ","i","n","d","i","c","e","s"," ","m","u","s","t"," ","b","e"," ","i","n","t","e","g","e","r","s"," ","o","r"," ","s","l","i","c","e","s",","," ","n","o","t"," ","s","t","r">>
S_string_indices == <<"s","t","r","i","n","g"," ","i","n","d","i","c","e","s"," ","m","u","s","t"," ","b","e"," ","i","n","t","e","g","e","r","s",","," ","n","o","t"," ","'","s","t","r","'">>
S_object_not_subscriptable == <<" ","o","b","j","e","c","t"," ","i","s"," ","n","o","t"," ","s","u","b","s","c","r","i","p","t","a","b","l","e">>
S_NoneType == <<"N","o","n","e","T","y","p","e">>
S_int == <<"i","n","t">>
S_no_attribute_lower == <<" ","o","b","j","e","c","t"," ","h","a","s"," ","n","o"," ","a","t","t","r","i","b","u","t","e"," ","'","l","o","w","e","r","'">>
S_codec_character == <<"'","u","t","f","-","8","'"," ","c","o","d","e","c"," ","c","a","n","'","t"," ","e","n","c","o","d","e"," ","c","h","a","r","a","c","t","e","r"," ">>
S_codec_characters == <<"'","u","t","f","-","8","'"," ","c","o","d","e","c"," ","c","a","n","'","t"," ","e","n","c","o","d","e"," ","c","h","a","r","a","c","t","e","r","s">>
S_in_position == <<" ","i","n"," ","p","o","s","i","t","i","o","n"," ">>
S_surrogates_not_allowed == <<":"," ","s","u","r","r","o","g","a","t","e","s"," ","n","o","t"," ","a","l","l","o","w","e","d">>
S_number == <<"3","0","0">>

(***************************************************************************)
(* Python values and the built-ins the module uses.                        *)
(***************************************************************************)
None == [t |-> "NoneType", v |-> <<>>]

Str(s) == [t |-> "str", v |-> s]

\* the outcome of evaluating an expression: a value, or a raised exception
Return(value) == [kind |-> "return", exc |-> "", msg |-> <<>>, value |-> value]

Raise(exc, msg) == [kind |-> "raise", exc |-> exc, msg |-> msg, value |-> None]

NoOutcome == [kind |-> "none", exc |-> "", msg |-> <<>>, value |-> None]

\* every text over an alphabet, up to a length
Texts(alphabet, n) == UNION { [1..k -> alphabet] : k \in 0..n }

UpperCase ==
    << "A", "B", "C", "D", "E", "F", "G", "H", "I", "J", "K", "L", "M", "N",
       "O", "P", "Q", "R", "S", "T", "U", "V", "W", "X", "Y", "Z" >>

LowerCase ==
    << "a", "b", "c", "d", "e", "f", "g", "h", "i", "j", "k", "l", "m", "n",
       "o", "p", "q", "r", "s", "t", "u", "v", "w", "x", "y", "z" >>

\* str.lower() on one character of ASCII: an upper-case letter gives its
\* lower-case letter, any other character is kept
LowerChar(c) ==
    IF \E i \in 1..Len(UpperCase) : UpperCase[i] = c
    THEN LowerCase[CHOOSE i \in 1..Len(UpperCase) : UpperCase[i] = c]
    ELSE c

lower(s) == [i \in 1..Len(s) |-> LowerChar(s[i])]

\* str.startswith(prefixes) with a tuple of prefixes
startswith(s, prefixes) ==
    \E i \in 1..Len(prefixes) :
        /\ Len(prefixes[i]) <= Len(s)
        /\ SubSeq(s, 1, Len(prefixes[i])) = prefixes[i]

\* a faulty variant of PyStr: None is rendered as the empty text
PyStrNoneEmpty(x) == IF x.t = "NoneType" THEN <<>> ELSE x.v

\* str(x), which is what str.format() and urlencode() apply to a value
PyStr(x) == IF x.t = "NoneType" THEN S_None ELSE x.v

\* str.format(**kwargs) on a parsed template: a sequence of
\* (literal text, replacement field) items, field "" meaning none
RECURSIVE format(_, _)
format(template, kwargs) ==
    IF template = <<>> THEN <<>>
    ELSE LET item == Head(template)
         IN  item.literal
             \o (IF item.field = "" THEN <<>> ELSE PyStr(kwargs[item.field]))
             \o format(Tail(template), kwargs)

\* repr(text) of a str that has no quote and no backslash in it
repr(text) == <<"'">> \o text \o <<"'">>

\* the printable characters of ASCII with their codes, in two runs: 32 to 95
\* and 97 to 126 (the grave accent, 96, is not among the texts modelled)
AsciiRuns ==
    << [ first |-> 32,
         chars |-> << " ", "!", "\"", "#", "$", "%", "&", "'", "(", ")", "*",
                     "+", ",", "-", ".", "/", "0", "1", "2", "3", "4", "5", "6",
                     "7", "8", "9", ":", ";", "<", "=", ">", "?", "@", "A", "B",
                     "C", "D", "E", "F", "G", "H", "I", "J", "K", "L", "M", "N",
                     "O", "P", "Q", "R", "S", "T", "U", "V", "W", "X", "Y", "Z",
                     "[", "\\", "]", "^", "_" >> ],
       [ first |-> 97,
         chars |-> << "a", "b", "c", "d", "e", "f", "g", "h", "i", "j", "k", "l",
                     "m", "n", "o", "p", "q", "r", "s", "t", "u", "v", "w", "x",
                     "y", "z", "{", "|", "}", "~" >> ] >>

\* ord(c)
CodeOf(c) ==
    LET has(k) == \E i \in 1..Len(AsciiRuns[k].chars) : AsciiRuns[k].chars[i] = c
        k == CHOOSE n \in 1..Len(AsciiRuns) : has(n)
        i == CHOOSE n \in 1..Len(AsciiRuns[k].chars) : AsciiRuns[k].chars[n] = c
    IN  AsciiRuns[k].first + i - 1

HexDigits ==
    << "0", "1", "2", "3", "4", "5", "6", "7", "8", "9", "A", "B", "C", "D",
       "E", "F" >>

\* str(n) of a natural number
RECURSIVE Decimal(_)
Decimal(n) ==
    IF n < 10 THEN <<HexDigits[n + 1]>>
    ELSE Decimal(n \div 10) \o <<HexDigits[(n % 10) + 1]>>

\* the lone surrogates U+DC80 and U+DC81: characters a str can hold and
\* UTF-8 cannot encode, each written here as one string
Surrogates == {"U+DC80", "U+DC81"}

\* the character as repr() writes it, without the quotes
Escaped(c) ==
    IF c = "U+DC80" THEN <<"\\", "u", "d", "c", "8", "0">>
    ELSE <<"\\", "u", "d", "c", "8", "1">>

\* text.encode('utf-8'): the text when every character can be encoded, and
\* otherwise UnicodeEncodeError for the first run of surrogates, whose message
\* names the character of a run of one and the positions, counted from 0
str_encode(text) ==
    LET bad == { i \in 1..Len(text) : text[i] \in Surrogates }
    IN  IF bad = {} THEN Return(Str(text))
        ELSE LET start == CHOOSE i \in bad : \A k \in bad : i <= k
                 end == CHOOSE i \in start..Len(text) :
                            /\ \A k \in start..i : k \in bad
                            /\ (i + 1) \notin bad
             IN  IF end = start
                 THEN Raise("UnicodeEncodeError",
                            S_codec_character \o <<"'">> \o Escaped(text[start])
                                \o <<"'">> \o S_in_position
                                \o Decimal(start - 1)
                                \o S_surrogates_not_allowed)
                 ELSE Raise("UnicodeEncodeError",
                            S_codec_characters \o S_in_position
                                \o Decimal(start - 1) \o <<"-">>
                                \o Decimal(end - 1)
                                \o S_surrogates_not_allowed)

\* the characters quote_plus never encodes: letters, digits, "_", ".", "-"
\* and "~"
Unreserved ==
    { UpperCase[i] : i \in 1..Len(UpperCase) }
        \cup { LowerCase[i] : i \in 1..Len(LowerCase) }
        \cup { "0", "1", "2", "3", "4", "5", "6", "7", "8", "9" }
        \cup { "_", ".", "-", "~" }

\* urllib.parse.quote_plus on one character of printable ASCII: an unreserved
\* character is kept, a space becomes "+", any other becomes "%" and the two
\* upper-case hexadecimal digits of its code
QuoteChar(c) ==
    IF c \in Unreserved THEN <<c>>
    ELSE IF c = " " THEN <<"+">>
    ELSE <<"%", HexDigits[(CodeOf(c) \div 16) + 1],
           HexDigits[(CodeOf(c) % 16) + 1]>>

RECURSIVE QuoteChars(_)
QuoteChars(s) ==
    IF s = <<>> THEN <<>> ELSE QuoteChar(Head(s)) \o QuoteChars(Tail(s))

\* urllib.parse.quote_plus: the text is encoded to UTF-8, which can raise, and
\* then quoted
quote_plus(s) ==
    LET encoded == str_encode(s)
    IN  IF encoded.kind = "raise" THEN encoded
        ELSE Return(Str(QuoteChars(encoded.value.v)))

\* urllib.parse.urlencode on the items of a dict, in insertion order: the
\* pairs joined with "&", or the exception of the first text that cannot be
\* encoded
RECURSIVE urlencode(_)
urlencode(query) ==
    IF query = <<>> THEN Return(Str(<<>>))
    ELSE LET k == quote_plus(Head(query)[1])
             v == quote_plus(PyStr(Head(query)[2]))
             rest == urlencode(Tail(query))
         IN  IF k.kind = "raise" THEN k
             ELSE IF v.kind = "raise" THEN v
             ELSE IF rest.kind = "raise" THEN rest
             ELSE LET pair == k.value.v \o <<"=">> \o v.value.v
                  IN  IF Tail(query) = <<>> THEN Return(Str(pair))
                      ELSE Return(Str(pair \o <<"&">> \o rest.value.v))

\* the base class of each exception class that can occur
Bases ==
    [ KeycloakError |-> "Exception",
      JSONDecodeError |-> "ValueError",
      ValueError |-> "Exception",
      HTTPError |-> "URLError",
      URLError |-> "OSError",
      timeout |-> "OSError",
      OSError |-> "Exception",
      KeyError |-> "LookupError",
      LookupError |-> "Exception",
      TypeError |-> "Exception",
      AttributeError |-> "Exception",
      UnicodeEncodeError |-> "UnicodeError",
      UnicodeError |-> "ValueError",
      Exception |-> "BaseException" ]

\* whether an except clause naming cls catches an exception of class c
RECURSIVE issubclass(_, _)
issubclass(c, cls) ==
    \/ c = cls
    \/ c \in DOMAIN Bases /\ issubclass(Bases[c], cls)

(***************************************************************************)
(* JSON.  A response text is represented by its syntax tree [j, v], or is  *)
(* "invalid" when it is not a JSON document.                               *)
(***************************************************************************)
NotJson == [j |-> "invalid", v |-> S_not_json]

JNull == [j |-> "null", v |-> <<>>]

JNumber == [j |-> "number", v |-> S_number]

JString(s) == [j |-> "string", v |-> s]

JArray(items) == [j |-> "array", v |-> items]

\* members: a sequence of <<key, document>>
JObject(members) == [j |-> "object", v |-> members]

\* json.loads: object -> dict, array -> list, string -> str, number -> int,
\* null -> None; anything else raises JSONDecodeError, a ValueError
RECURSIVE JsonValue(_)
JsonValue(doc) ==
    CASE doc.j = "null" -> None
      [] doc.j = "number" -> [t |-> "int", v |-> doc.v]
      [] doc.j = "string" -> Str(doc.v)
      [] doc.j = "array" ->
            [t |-> "list", v |-> [i \in 1..Len(doc.v) |-> JsonValue(doc.v[i])]]
      [] doc.j = "object" ->
            [t |-> "dict",
             v |-> [i \in 1..Len(doc.v) |-> <<doc.v[i][1], JsonValue(doc.v[i][2])>>]]

json_loads(s) ==
    IF s.v.j = "invalid" THEN Raise("JSONDecodeError", S_expecting_value)
    ELSE Return(JsonValue(s.v))

\* to_native: the bytes read, decoded to str (it replaces what it cannot
\* decode and never raises)
to_native(b) == [t |-> "str", v |-> b.v]

\* r[key] with a str key: the value of a dict (of the last member with the
\* key), KeyError(key) when the dict does not have it, and the TypeError of
\* the interpreter for a list, a str, an int and None
getitem(r, key) ==
    CASE r.t = "dict" ->
           LET hits == { i \in 1..Len(r.v) : r.v[i][1] = key }
           IN  IF hits = {} THEN Raise("KeyError", repr(key))
               ELSE Return(r.v[CHOOSE i \in hits : \A k \in hits : k <= i][2])
      [] r.t = "list" -> Raise("TypeError", S_list_indices)
      [] r.t = "str" -> Raise("TypeError", S_string_indices)
      [] r.t = "int" ->
           Raise("TypeError", repr(S_int) \o S_object_not_subscriptable)
      [] r.t = "NoneType" ->
           Raise("TypeError", repr(S_NoneType) \o S_object_not_subscriptable)

(***************************************************************************)
(* The module: its argument specification and get_token.                   *)
(***************************************************************************)
\* URL_TOKEN, as str.format parses it
URL_TOKEN ==
    << [literal |-> <<>>, field |-> "url"],
       [literal |-> S_realms, field |-> "realm"],
       [literal |-> S_protocol, field |-> ""] >>

True == [t |-> "bool", v |-> <<"T", "r", "u", "e">>]

False == [t |-> "bool", v |-> <<"F", "a", "l", "s", "e">>]

Bool(b) == IF b THEN True ELSE False

Int10 == [t |-> "int", v |-> <<"1", "0">>]

\* a faulty variant of keycloak_argument_spec: auth_client_id has no default
argument_spec_without_default ==
    [ auth_keycloak_url |-> [required |-> TRUE, default |-> None],
      auth_client_id |-> [required |-> FALSE, default |-> None],
      auth_realm |-> [required |-> FALSE, default |-> None],
      auth_username |-> [required |-> FALSE, default |-> None],
      auth_password |-> [required |-> FALSE, default |-> None],
      validate_certs |-> [required |-> FALSE, default |-> True],
      connection_timeout |-> [required |-> FALSE, default |-> Int10],
      http_agent |-> [required |-> FALSE, default |-> Str(S_Ansible)] ]

\* keycloak_argument_spec(): whether each option is required, and its default
\* (None when it has none)
keycloak_argument_spec ==
    [ auth_keycloak_url |-> [required |-> TRUE, default |-> None],
      auth_client_id |-> [required |-> FALSE, default |-> Str(S_admin_cli)],
      auth_realm |-> [required |-> FALSE, default |-> None],
      auth_username |-> [required |-> FALSE, default |-> None],
      auth_password |-> [required |-> FALSE, default |-> None],
      validate_certs |-> [required |-> FALSE, default |-> True],
      connection_timeout |-> [required |-> FALSE, default |-> Int10],
      http_agent |-> [required |-> FALSE, default |-> Str(S_Ansible)] ]

Options == DOMAIN keycloak_argument_spec

\* the group main() names in required_one_of and in required_together
CredentialGroup == {"auth_realm", "auth_username", "auth_password"}

\* AnsibleModule(argument_spec, required_one_of, required_together) on the
\* task's arguments, an option the task does not give being None: the
\* parameters with the defaults filled in, or ok = FALSE when it calls
\* fail_json itself
AnsibleModule(argument_spec, args) ==
    LET supplied == { k \in Options : args[k] # None }
        missing == { k \in Options : argument_spec[k].required } \ supplied
        given == CredentialGroup \cap supplied
        params == [k \in Options |->
                     IF k \in supplied THEN args[k] ELSE argument_spec[k].default]
    IN  [ok |-> /\ missing = {}
                /\ given # {}
                /\ given = CredentialGroup,
         params |-> params]

\* x.lower(): the lowered str, or the AttributeError of a None, which has
\* no such method
call_lower(x) ==
    CASE x.t = "str" -> Return(Str(lower(x.v)))
      [] x.t = "NoneType" ->
           Raise("AttributeError", repr(S_NoneType) \o S_no_attribute_lower)

\* a faulty variant of SchemeAccepted: the prefix is compared without lower()
SchemeAcceptedCaseSensitive(base_url) ==
    LET lowered == call_lower(base_url)
    IN  IF lowered.kind = "raise" THEN lowered
        ELSE Return(Bool(startswith(base_url.v, <<S_http, S_https>>)))

\* base_url.lower().startswith(('http', 'https')): True or False, or the
\* exception of base_url.lower()
SchemeAccepted(base_url) ==
    LET lowered == call_lower(base_url)
    IN  IF lowered.kind = "raise" THEN lowered
        ELSE Return(Bool(startswith(lowered.value.v, <<S_http, S_https>>)))

\* the scheme check at the head of get_token
get_token_check(s) ==
    LET base_url == s.module_params.auth_keycloak_url
        accepted == SchemeAccepted(base_url)
    IN  IF accepted.kind = "raise"
        THEN [s EXCEPT !.pc = "raised", !.outcome = accepted]
        ELSE IF accepted.value = False
        THEN [s EXCEPT !.pc = "raised",
                       !.outcome = Raise("KeycloakError",
                                         S_bad_scheme_1 \o PyStr(base_url)
                                             \o S_bad_scheme_2)]
        ELSE [s EXCEPT !.pc = "build"]

\* a faulty variant of RemoveEmptyItems: the filter is "if v", which also drops ""
RemoveFalsyItems(temp_payload) ==
    SelectSeq(temp_payload, LAMBDA kv : kv[2] # None /\ kv[2].v # <<>>)

\* dict((k, v) for k, v in temp_payload.items() if v is not None)
RemoveEmptyItems(temp_payload) ==
    SelectSeq(temp_payload, LAMBDA kv : kv[2] # None)

\* a faulty variant of TokenUrl: a trailing slash of the base URL is dropped
TokenUrlSlashTrimmed(base_url, auth_realm) ==
    LET u == base_url.v
        trimmed == IF u # <<>> /\ u[Len(u)] = "/"
                   THEN Str(SubSeq(u, 1, Len(u) - 1)) ELSE base_url
    IN  format(URL_TOKEN, [url |-> trimmed, realm |-> auth_realm])

\* URL_TOKEN.format(url=base_url, realm=auth_realm)
TokenUrl(base_url, auth_realm) ==
    format(URL_TOKEN, [url |-> base_url, realm |-> auth_realm])

\* reading the parameters, the endpoint and the payload
get_token_build(s) ==
    LET p == s.module_params
        temp_payload == << <<S_grant_type, Str(S_password)>>,
                           <<S_client_id, p.auth_client_id>>,
                           <<S_username, p.auth_username>>,
                           <<S_password, p.auth_password>> >>
    IN  [s EXCEPT !.pc = "post",
                  !.auth_url = TokenUrl(p.auth_keycloak_url, p.auth_realm),
                  !.payload = RemoveEmptyItems(temp_payload)]

\* the arguments of the open_url call, data being what urlencode(payload)
\* returned
open_url_request(s, data) ==
    [ url |-> s.auth_url,
      method |-> S_POST,
      validate_certs |-> s.module_params.validate_certs,
      http_agent |-> s.module_params.http_agent,
      timeout |-> s.module_params.connection_timeout,
      data |-> data.v ]

\* 'Could not obtain access token from %s: %s' % (auth_url, str(e))
TransportMessage(s, detail) ==
    S_could_not \o s.auth_url \o S_colon \o detail

\* the try block around the POST: urlencode(payload) is evaluated first and
\* can raise (data is its outcome); then open_url(...).read() returns the
\* bytes of the body or raises (read is its outcome); then json.loads
get_token_post(s, data, read) ==
    LET loaded == IF data.kind = "raise" THEN data
                  ELSE IF read.kind = "raise" THEN read
                  ELSE json_loads(to_native(read.value))
    IN  IF loaded.kind = "raise" /\ issubclass(loaded.exc, "ValueError")
        THEN [s EXCEPT !.pc = "raised",
                       !.outcome = Raise("KeycloakError",
                                         S_invalid_json \o s.auth_url
                                             \o S_colon \o loaded.msg)]
        ELSE IF loaded.kind = "raise" /\ issubclass(loaded.exc, "Exception")
        THEN [s EXCEPT !.pc = "raised",
                       !.outcome = Raise("KeycloakError",
                                         TransportMessage(s, loaded.msg))]
        ELSE IF loaded.kind = "raise"
        THEN [s EXCEPT !.pc = "raised", !.outcome = loaded]
        ELSE [s EXCEPT !.pc = "extract", !.r = loaded.value]

\* a faulty variant of get_token_extract: a missing field is reported with a detail
get_token_extract_with_detail(s) ==
    LET got == getitem(s.r, S_access_token)
    IN  CASE got.kind = "raise" /\ issubclass(got.exc, "KeyError") ->
               [s EXCEPT !.pc = "raised",
                         !.outcome = Raise("KeycloakError",
                                           S_could_not \o s.auth_url
                                               \o S_colon \o got.msg)]
          [] got.kind = "raise" /\ ~issubclass(got.exc, "KeyError") ->
               [s EXCEPT !.pc = "raised", !.outcome = got]
          [] OTHER ->
               [s EXCEPT !.pc = "returned", !.outcome = Return(got.value)]

\* token = r['access_token'], its except KeyError clause and the return
get_token_extract(s) ==
    LET got == getitem(s.r, S_access_token)
    IN  CASE got.kind = "raise" /\ issubclass(got.exc, "KeyError") ->
               [s EXCEPT !.pc = "raised",
                         !.outcome = Raise("KeycloakError",
                                           S_could_not \o s.auth_url)]
          [] got.kind = "raise" /\ ~issubclass(got.exc, "KeyError") ->
               [s EXCEPT !.pc = "raised", !.outcome = got]
          [] OTHER ->
               [s EXCEPT !.pc = "returned", !.outcome = Return(got.value)]

\* main() before the call: AnsibleModule either fails the task or hands
\* module.params to get_token
main_parse(s) ==
    LET m == AnsibleModule(keycloak_argument_spec, s.args)
    IN  IF m.ok
        THEN [s EXCEPT !.pc = "get_token", !.module_params = m.params]
        ELSE [s EXCEPT !.pc = "done", !.exit = "fail_json"]

\* main() after the call: fail_json(msg=str(e)) on KeycloakError,
\* exit_json(token=token) on a return; any other exception is not caught
main_finish(s) ==
    [s EXCEPT !.pc = "done",
              !.exit = CASE s.outcome.kind = "return" -> "exit_json"
                         [] s.outcome.kind = "raise"
                              /\ issubclass(s.outcome.exc, "KeycloakError") ->
                                "fail_json"
                         [] OTHER -> "traceback"]

(***************************************************************************)
(* The inputs: what the caller passes and what the HTTP layer delivers.    *)
(***************************************************************************)
Inv == {1, 2}

Optional(texts) == {None} \cup { Str(x) : x \in texts }

SchemePrefixes ==
    { <<>>, <<"h", "t", "t">>, S_http, <<"H", "t", "t", "p", "S">>,
      <<"f", "t", "p">> }

BaseUrls ==
    Optional({ p \o x : p \in SchemePrefixes, x \in Texts({"/"}, MaxUrlTail) })

Realms == Optional({<<"m">>} \cup Texts({"/"}, MaxRealmLen))

ClientIds == Optional({<<>>, <<"c">>})

Usernames == Optional({<<"u">>})

Passwords == Optional(Texts({"&", "U+DC80"}, MaxPasswordLen))

\* the passwords of the second invocation
OtherPasswords == { Str(x) : x \in {<<"q", " ">>, <<"U+DC81">>} }

Tokens == {S_abc123, S_xyz789}

Arguments ==
    { [ auth_keycloak_url |-> u, auth_client_id |-> c, auth_realm |-> m,
        auth_username |-> n, auth_password |-> p, validate_certs |-> None,
        connection_timeout |-> None, http_agent |-> None ] :
      u \in BaseUrls, c \in ClientIds, m \in Realms, n \in Usernames,
      p \in Passwords }

\* get_token called by a caller of its own: the dict has the three options
\* that have defaults; the others may be None
Parameters ==
    { [a EXCEPT !.validate_certs = True, !.connection_timeout = Int10,
                !.http_agent = Str(S_Ansible)] : a \in Arguments }

\* what open_url(...).read() can do, for a provider that would issue the
\* token tok: raise (a refused connection, a non-2xx status, a timeout, a
\* URL that urllib cannot parse, which it names in the message), or return a
\* body
HttpOutcomes(tok, url) ==
    << Raise("URLError", S_refused),
       Raise("HTTPError", S_http_401),
       Raise("timeout", S_timed_out),
       Raise("ValueError", S_unknown_url \o repr(url)),
       Return([t |-> "bytes", v |-> NotJson]),
       Return([t |-> "bytes", v |-> JNull]),
       Return([t |-> "bytes", v |-> JNumber]),
       Return([t |-> "bytes", v |-> JString(tok)]),
       Return([t |-> "bytes", v |-> JArray(<<>>)]),
       Return([t |-> "bytes", v |-> JArray(<<JString(tok)>>)]),
       Return([t |-> "bytes", v |-> JObject(<<>>)]),
       Return([t |-> "bytes",
               v |-> JObject(<< <<S_error, JString(S_invalid_grant)>> >>)]),
       Return([t |-> "bytes",
               v |-> JObject(<< <<S_access_token, JString(tok)>> >>)]),
       Return([t |-> "bytes",
               v |-> JObject(<< <<S_access_token, JString(tok)>>,
                                <<S_expires_in, JNumber>> >>)]),
       Return([t |-> "bytes",
               v |-> JObject(<< <<S_access_token, JNull>> >>)]),
       Return([t |-> "bytes",
               v |-> JObject(<< <<S_access_token, JNumber>>,
                                <<S_error, JString(tok)>> >>)]) >>

NumHttpOutcomes == Len(HttpOutcomes(<<>>, <<>>))

\* an invocation before it starts
Start(entry, given, tok) ==
    [ entry |-> entry,
      args |-> given,
      issued |-> tok,
      pc |-> entry,
      module_params |-> given,
      auth_url |-> <<>>,
      payload |-> <<>>,
      read |-> NoOutcome,
      r |-> None,
      outcome |-> NoOutcome,
      exit |-> "" ]

\* the second invocation has the inputs of the first, except for the
\* password or except for the token the provider issues
Init ==
    /\ \E entry \in {"main", "get_token"} :
       \E given \in (IF entry = "main" THEN Arguments ELSE Parameters) :
       \E other \in { <<p, S_abc123>> : p \in OtherPasswords }
                       \cup { <<given.auth_password, k>> : k \in Tokens } :
           inv = [i \in Inv |->
                    IF i = 1 THEN Start(entry, given, S_abc123)
                    ELSE Start(entry,
                               [given EXCEPT !.auth_password = other[1]],
                               other[2])]
    /\ wire = [i \in Inv |-> <<>>]

(***************************************************************************)
(* The steps.  The invocations that are at a step take it together.        *)
(***************************************************************************)
At(label) == { i \in Inv : inv[i].pc = label }

Parse ==
    /\ At("main") # {}
    /\ inv' = [i \in Inv |->
                 IF i \in At("main") THEN main_parse(inv[i]) ELSE inv[i]]
    /\ UNCHANGED wire

Check ==
    /\ At("get_token") # {}
    /\ inv' = [i \in Inv |->
                 IF i \in At("get_token") THEN get_token_check(inv[i])
                 ELSE inv[i]]
    /\ UNCHANGED wire

Build ==
    /\ At("build") # {}
    /\ inv' = [i \in Inv |->
                 IF i \in At("build") THEN get_token_build(inv[i])
                 ELSE inv[i]]
    /\ UNCHANGED wire

\* the POST and the parse of its answer: an invocation whose body can be
\* encoded calls the HTTP layer, once, and the HTTP layer answers the two
\* invocations alike
Post ==
    LET data == [i \in Inv |-> urlencode(inv[i].payload)]
        called == { i \in At("post") : data[i].kind = "return" }
    IN  /\ At("post") # {}
        /\ \E n \in 1..NumHttpOutcomes :
               inv' = [i \in Inv |->
                         LET read == HttpOutcomes(inv[i].issued,
                                                  inv[i].auth_url)[n]
                         IN  IF i \in called
                             THEN get_token_post([inv[i] EXCEPT !.read = read],
                                                 data[i], read)
                             ELSE IF i \in At("post")
                             THEN get_token_post(inv[i], data[i], read)
                             ELSE inv[i]]
        /\ wire' = [i \in Inv |->
                      IF i \in called
                      THEN Append(wire[i],
                                  open_url_request(inv[i], data[i].value))
                      ELSE wire[i]]

Extract ==
    /\ At("extract") # {}
    /\ inv' = [i \in Inv |->
                 IF i \in At("extract") THEN get_token_extract(inv[i])
                 ELSE inv[i]]
    /\ UNCHANGED wire

\* back in main(), when main() made the call
Finish ==
    LET back == { i \in At("returned") \cup At("raised") :
                    inv[i].entry = "main" }
    IN  /\ back # {}
        /\ inv' = [i \in Inv |->
                     IF i \in back THEN main_finish(inv[i]) ELSE inv[i]]
        /\ UNCHANGED wire

Next == Parse \/ Check \/ Build \/ Post \/ Extract \/ Finish

Spec == Init /\ [][Next]_vars

(***************************************************************************)
(* Properties.                                                             *)
(***************************************************************************)
\* get_token has ended, by a return or by an exception
Ended(s) == s.outcome.kind # "none"

KeycloakErrorRaised(s) ==
    s.outcome.kind = "raise" /\ s.outcome.exc = "KeycloakError"

\* the text starts with the prefix
HasPrefix(text, prefix) ==
    Len(prefix) <= Len(text) /\ SubSeq(text, 1, Len(prefix)) = prefix

\* the pieces of a text between the occurrences of a separator
RECURSIVE SplitOn(_, _)
SplitOn(text, sep) ==
    IF \A i \in 1..Len(text) : text[i] # sep THEN <<text>>
    ELSE LET k == CHOOSE i \in 1..Len(text) :
                      text[i] = sep /\ \A j \in 1..(i - 1) : text[j] # sep
         IN  <<SubSeq(text, 1, k - 1)>>
                 \o SplitOn(SubSeq(text, k + 1, Len(text)), sep)

\* the fields of a form-encoded body, each <<key, encoded value>>; a piece
\* without "=" has the value <<"?">>
FormFields(data) ==
    IF data = <<>> THEN {}
    ELSE LET pieces == SplitOn(data, "&")
             field(piece) ==
                 IF \A i \in 1..Len(piece) : piece[i] # "="
                 THEN <<piece, <<"?">>>>
                 ELSE LET k == CHOOSE i \in 1..Len(piece) :
                                   piece[i] = "="
                                   /\ \A j \in 1..(i - 1) : piece[j] # "="
                      IN  <<SubSeq(piece, 1, k - 1),
                            SubSeq(piece, k + 1, Len(piece))>>
         IN  { field(pieces[i]) : i \in 1..Len(pieces) }

FormKeys(data) == { f[1] : f \in FormFields(data) }

\* the endpoint the specification gives for a base URL and a realm text
Endpoint(base, realm) == base \o S_realms \o realm \o S_protocol

\* the base URL starts with "http", in any case (and so does every one that
\* starts with "https")
StartsWithHttp(base) ==
    /\ Len(base) >= 4
    /\ base[1] \in {"h", "H"}
    /\ base[2] \in {"t", "T"}
    /\ base[3] \in {"t", "T"}
    /\ base[4] \in {"p", "P"}

\* C1: every invocation of get_token that does not return a token ends in
\* a KeycloakError, whatever the HTTP layer delivers.
C1_OnlyKeycloakError ==
    \A i \in Inv :
        inv[i].outcome.kind = "raise" => inv[i].outcome.exc = "KeycloakError"

\* every character of the text can be encoded to UTF-8
Encodable(text) == \A k \in 1..Len(text) : text[k] \notin Surrogates

\* the client id, the user name and the password that are given can be
\* encoded
BodyEncodable(s) ==
    \A o \in {"auth_client_id", "auth_username", "auth_password"} :
        s.module_params[o] # None => Encodable(s.module_params[o].v)

\* C2 as stated: an invocation makes no HTTP call when the base URL does not
\* start with http (in any case), the bad-scheme KeycloakError being raised,
\* and exactly one call otherwise, whatever its outcome.
C2_CallCountAsStated ==
    \A i \in Inv :
        LET base_url == inv[i].module_params.auth_keycloak_url
        IN  /\ Len(wire[i]) <= 1
            /\ ~StartsWithHttp(base_url.v) => Len(wire[i]) = 0
            /\ Ended(inv[i]) /\ ~StartsWithHttp(base_url.v) =>
                   /\ KeycloakErrorRaised(inv[i])
                   /\ inv[i].outcome.msg =
                          S_bad_scheme_1 \o PyStr(base_url) \o S_bad_scheme_2
            /\ Ended(inv[i]) /\ StartsWithHttp(base_url.v) => Len(wire[i]) = 1

\* C2 as amended: an invocation never makes more than one HTTP call.  It
\* makes none when the base URL is absent (it ends in AttributeError), none
\* when the base URL is a text that does not start with http (it ends in the
\* bad-scheme KeycloakError), none when a credential of the body cannot be
\* encoded to UTF-8 (it ends in a KeycloakError), and exactly one otherwise,
\* whatever the outcome of the call.
C2_CallCount ==
    \A i \in Inv :
        LET s == inv[i]
            base_url == s.module_params.auth_keycloak_url
        IN  /\ Len(wire[i]) <= 1
            /\ ~StartsWithHttp(base_url.v) => Len(wire[i]) = 0
            /\ ~BodyEncodable(s) => Len(wire[i]) = 0
            /\ Ended(s) /\ base_url = None =>
                   s.outcome.kind = "raise" /\ s.outcome.exc = "AttributeError"
            /\ Ended(s) /\ base_url # None /\ ~StartsWithHttp(base_url.v) =>
                   /\ KeycloakErrorRaised(s)
                   /\ s.outcome.msg =
                          S_bad_scheme_1 \o base_url.v \o S_bad_scheme_2
            /\ Ended(s) /\ StartsWithHttp(base_url.v) /\ ~BodyEncodable(s) =>
                   KeycloakErrorRaised(s)
            /\ Ended(s) /\ StartsWithHttp(base_url.v) /\ BodyEncodable(s) =>
                   Len(wire[i]) = 1

\* C2 witness: of two invocations with a URL written in mixed case, one
\* posted once and the call failed, and the other, whose password cannot be
\* encoded, ended without a call.
C2_Witness ==
    \E i, j \in Inv :
        /\ HasPrefix(inv[i].module_params.auth_keycloak_url.v,
                     <<"H", "t", "t", "p", "S">>)
        /\ inv[i].read.kind = "raise"
        /\ KeycloakErrorRaised(inv[i])
        /\ Len(wire[i]) = 1
        /\ ~BodyEncodable(inv[j])
        /\ KeycloakErrorRaised(inv[j])
        /\ Len(wire[j]) = 0

\* C3: the malformed-response error is produced exactly when the call
\* succeeded and the body is not JSON, and every exception raised by the
\* call itself, whatever its type, gives the transport-failure error.
C3_Classification ==
    \A i \in Inv :
        LET s == inv[i]
            malformed == /\ KeycloakErrorRaised(s)
                         /\ HasPrefix(s.outcome.msg, S_invalid_json)
        IN  /\ malformed <=> /\ Len(wire[i]) = 1
                             /\ s.read.kind = "return"
                             /\ s.read.value.v.j = "invalid"
            /\ Len(wire[i]) = 1 /\ s.read.kind = "raise" =>
                   /\ KeycloakErrorRaised(s)
                   /\ s.outcome.msg = S_could_not \o s.auth_url \o S_colon
                                          \o s.read.msg

\* the document of the access_token member of an object, <<>> when it has
\* none
TokenMember(doc) ==
    LET hits == { k \in 1..Len(doc.v) : doc.v[k][1] = S_access_token }
    IN  IF hits = {} THEN <<>>
        ELSE <<doc.v[CHOOSE k \in hits : \A h \in hits : h <= k][2]>>

\* the body of the response is a JSON object
ObjectReceived(s) ==
    s.read.kind = "return" /\ s.read.value.v.j = "object"

\* C4: when the body is a JSON object, get_token returns the value of its
\* access_token member if it has one, and otherwise raises the KeycloakError
\* whose message is 'Could not obtain access token from <endpoint>' and
\* nothing more.
C4_TokenExtraction ==
    \A i \in Inv :
        LET s == inv[i]
        IN  Ended(s) /\ ObjectReceived(s) =>
                LET member == TokenMember(s.read.value.v)
                IN  IF member # <<>>
                    THEN s.outcome = Return(JsonValue(member[1]))
                    ELSE s.outcome = Raise("KeycloakError",
                                           S_could_not \o s.auth_url)

\* C4 witness: the token was returned from an object that has other members,
\* after the step that extracts it.
C4_Witness ==
    \E i \in Inv :
        /\ inv[i].pc = "returned"
        /\ ObjectReceived(inv[i])
        /\ Len(inv[i].read.value.v.v) = 2
        /\ inv[i].outcome = Return(Str(S_abc123))

CredentialFields ==
    { <<S_client_id, "auth_client_id">>, <<S_username, "auth_username">>,
      <<S_password, "auth_password">> }

\* C5: the body sent has grant_type=password, has each of client_id,
\* username and password exactly when its value is not None, keeps an empty
\* value as an empty field, and has no other field.
C5_Payload ==
    \A i \in Inv :
        \A k \in 1..Len(wire[i]) :
            LET data == wire[i][k].data
                p == inv[i].module_params
            IN  /\ <<S_grant_type, S_password>> \in FormFields(data)
                /\ FormKeys(data) \subseteq
                       {S_grant_type} \cup { c[1] : c \in CredentialFields }
                /\ \A c \in CredentialFields :
                       /\ c[1] \in FormKeys(data) <=> p[c[2]] # None
                       /\ p[c[2]] = Str(<<>>) => <<c[1], <<>>>> \in FormFields(data)

\* C5 witness: a body was sent with an empty password and without a user
\* name.
C5_Witness ==
    \E i \in Inv :
        /\ Len(wire[i]) = 1
        /\ inv[i].module_params.auth_password = Str(<<>>)
        /\ inv[i].module_params.auth_username = None
        /\ <<S_password, <<>>>> \in FormFields(wire[i][1].data)
        /\ S_username \notin FormKeys(wire[i][1].data)

\* C6: when the task gives a user name and a password and no client id, the
\* body sent has grant_type, username, password and client_id=admin-cli.
C6_DefaultClientId ==
    \A i \in Inv :
        LET a == inv[i].args
        IN  /\ inv[i].entry = "main"
            /\ a.auth_client_id = None
            /\ a.auth_username # None
            /\ a.auth_password # None
            => \A k \in 1..Len(wire[i]) :
                   /\ <<S_client_id, S_admin_cli>> \in FormFields(wire[i][k].data)
                   /\ FormKeys(wire[i][k].data) =
                          {S_grant_type, S_client_id, S_username, S_password}

\* C6 witness: main() ran for a task without a client id, and the body was
\* sent.
C6_Witness ==
    \E i \in Inv :
        /\ inv[i].entry = "main"
        /\ inv[i].args.auth_client_id = None
        /\ Len(wire[i]) = 1
        /\ <<S_client_id, S_admin_cli>> \in FormFields(wire[i][1].data)

\* the two invocations have the same inputs except, at most, for the
\* password and for the token the provider issues
SameButSecrets ==
    /\ inv[1].entry = inv[2].entry
    /\ [inv[1].args EXCEPT !.auth_password = None]
           = [inv[2].args EXCEPT !.auth_password = None]

\* C7: two invocations that differ only in the password, or only in the
\* token of the response, and that both fail, fail with the same message.
C7_MessageIndependentOfSecrets ==
    /\ SameButSecrets
    /\ inv[1].outcome.kind = "raise"
    /\ inv[2].outcome.kind = "raise"
    => /\ inv[1].outcome.exc = inv[2].outcome.exc
       /\ inv[1].outcome.msg = inv[2].outcome.msg

\* C8: for a base URL that passes the scheme check and a realm text, the
\* URL posted to, which is also the one in every error message after the
\* check, is base_url + '/realms/' + realm + '/protocol/openid-connect/token'.
C8_Endpoint ==
    \A i \in Inv :
        LET s == inv[i]
            p == s.module_params
        IN  p.auth_realm # None /\ s.auth_url # <<>> =>
                LET url == Endpoint(p.auth_keycloak_url.v, p.auth_realm.v)
                IN  /\ s.auth_url = url
                    /\ \A k \in 1..Len(wire[i]) : wire[i][k].url = url
                    /\ KeycloakErrorRaised(s) =>
                           \/ HasPrefix(s.outcome.msg, S_could_not \o url)
                           \/ HasPrefix(s.outcome.msg, S_invalid_json \o url)

\* C8 witness: a base URL that ends with a slash, and the realm "/", were
\* posted to, and the call failed.
C8_Witness ==
    \E i \in Inv :
        /\ inv[i].module_params.auth_keycloak_url = Str(S_http \o <<"/">>)
        /\ inv[i].module_params.auth_realm = Str(<<"/">>)
        /\ Len(wire[i]) = 1
        /\ KeycloakErrorRaised(inv[i])

\* the realm is None and the base URL passes the scheme check
RealmAbsent(s) ==
    /\ s.module_params.auth_realm = None
    /\ StartsWithHttp(s.module_params.auth_keycloak_url.v)

\* get_token has computed its endpoint
Built(s) == s.auth_url # <<>>

\* the endpoint of the invocation is this URL, and when get_token has ended
\* it has posted to it, once, unless the body could not be encoded
PostedTo(i, url) ==
    /\ Built(inv[i]) => inv[i].auth_url = url
    /\ \A k \in 1..Len(wire[i]) : wire[i][k].url = url
    /\ Ended(inv[i]) => Built(inv[i])
    /\ Ended(inv[i]) /\ BodyEncodable(inv[i]) => Len(wire[i]) = 1

\* C9 as stated: when the realm is absent, get_token raises no error for it
\* and posts to the endpoint whose realm segment is empty.
C9_RealmSegmentEmpty ==
    \A i \in Inv :
        RealmAbsent(inv[i]) =>
            PostedTo(i, Endpoint(inv[i].module_params.auth_keycloak_url.v, <<>>))

\* C9 as amended: when the realm is absent, get_token raises no error for it
\* and posts to the endpoint whose realm segment is the text None.
C9_RealmSegmentNone ==
    \A i \in Inv :
        RealmAbsent(inv[i]) =>
            PostedTo(i, Endpoint(inv[i].module_params.auth_keycloak_url.v,
                                 <<"N", "o", "n", "e">>))

\* C9 witness: the request of an invocation without a realm was sent.
C9_Witness ==
    \E i \in Inv :
        /\ RealmAbsent(inv[i])
        /\ Len(wire[i]) = 1
        /\ Ended(inv[i])

\* C10: whenever get_token returns, what it returns is a string.
C10_TokenIsString ==
    \A i \in Inv :
        inv[i].outcome.kind = "return" => inv[i].outcome.value.t = "str"

====
